---- MODULE Spec2Model ----
(***************************************************************************)
(* Growth-suggestion engine of the Auto Growth Suggestion API.             *)
(*                                                                         *)
(* Two implementations of suggest_growth / calculate_cagr are modelled:    *)
(*   _ga : src/growth_api.py            (fetch-then-compute mode)          *)
(*   _fm : src/financial_model_api.py   (direct-data mode)                 *)
(*                                                                         *)
(* Python values are records [rep, k, v]:                                  *)
(*   rep  "none" | "float" | "int" | "other"   ("other" is a numeric type  *)
(*        that is not a subclass of float: numpy.float32, Decimal, ...)    *)
(*   k    "fin" | "nan" | "pinf" | "ninf" | "huge"  ("huge": an int beyond *)
(*        the range of a float)                                            *)
(*   v    the finite value, in units of 1/SCALE (fixed point standing for  *)
(*        the binary float); 0 when k # "fin"                              *)
(* Every fixed-point division truncates towards minus infinity, where the  *)
(* float rounds to nearest: results agree with Python's up to a few units. *)
(***************************************************************************)
EXTENDS Integers, Sequences, FiniteSets, TLC

VARIABLES series, sector, resG, resF, sfCall, cagrCall

vars == <<series, sector, resG, resF, sfCall, cagrCall>>

\* Longest series a request carries.
MaxLen == 4

\* Largest magnitude of the finite arguments handed to safe_float alone.
MaxArg == 6

\* Resolution of the fixed-point stand-in for a Python float.
SCALE == 1000

----------------------------------------------------------------------------
\* Python values

PyVal(rep, k, v) == [rep |-> rep, k |-> k, v |-> v]

None == PyVal("none", "none", 0)
NaN == PyVal("float", "nan", 0)
PInf == PyVal("float", "pinf", 0)
NInf == PyVal("float", "ninf", 0)
PyFloat(n) == PyVal("float", "fin", n)
PyInt(n) == PyVal("int", "fin", n * SCALE)
HugeInt == PyVal("int", "huge", 0)
Zero == PyFloat(0)

\* Result of an expression that may raise.
Ok(x) == [exc |-> "", val |-> x]
Raise(e) == [exc |-> e, val |-> Zero]

IsFinite(x) == x.k = "fin"

\* float(x): keeps the value, changes the representation.
ToFloat(x) == PyVal("float", x.k, x.v)

\* x > 0 and x <= 0 on numbers (every comparison with NaN is False).
Gt0(x) == (x.k = "fin" /\ x.v > 0) \/ x.k = "pinf" \/ x.k = "huge"
Le0(x) == (x.k = "fin" /\ x.v <= 0) \/ x.k = "ninf"

\* b > a and b < a on numbers.
Sign(x) == CASE x.k = "pinf" -> 1 [] x.k = "ninf" -> -1 [] OTHER -> 0
Less(a, b) ==
    /\ a.k # "nan" /\ b.k # "nan"
    /\ IF a.k = "fin" /\ b.k = "fin" THEN a.v < b.v ELSE Sign(a) < Sign(b)

----------------------------------------------------------------------------
\* SAFE FLOAT

safe_float(x) ==
    IF x.rep = "none" THEN Ok(Zero)
    ELSE IF x.rep = "float" /\ (x.k = "nan" \/ x.k \in {"pinf", "ninf"})
         THEN Ok(Zero)
    ELSE IF x.k = "huge" THEN Raise("OverflowError")
    ELSE Ok(ToFloat(x))

----------------------------------------------------------------------------
\* Float arithmetic (IEEE special values kept)

Fin(n) == PyFloat(n)

Neg(x) ==
    CASE x.k = "pinf" -> NInf
      [] x.k = "ninf" -> PInf
      [] x.k = "fin" -> Fin(0 - x.v)
      [] OTHER -> x

\* a + b
Add(a, b) ==
    IF a.k = "nan" \/ b.k = "nan" THEN NaN
    ELSE IF a.k = "fin" /\ b.k = "fin" THEN Fin(a.v + b.v)
    ELSE IF a.k = "fin" THEN b
    ELSE IF b.k = "fin" THEN a
    ELSE IF a.k = b.k THEN a
    ELSE NaN

\* a - b
Sub(a, b) == Add(a, Neg(b))

\* (num / den) * x for a float literal num/den > 0, and x * n for n > 0
Scaled(num, den, x) == IF x.k = "fin" THEN Fin((num * x.v) \div den) ELSE x

\* a / b: ZeroDivisionError on a zero divisor, whatever the dividend
Div(a, b) ==
    IF a.rep = "none" \/ b.rep = "none" THEN Raise("TypeError")
    ELSE IF b.k = "fin" /\ b.v = 0 THEN Raise("ZeroDivisionError")
    ELSE IF a.k = "nan" \/ b.k = "nan" THEN Ok(NaN)
    ELSE IF a.k = "fin" /\ b.k = "fin"
         THEN Ok(Fin(IF b.v > 0 THEN (a.v * SCALE) \div b.v
                     ELSE ((0 - a.v) * SCALE) \div (0 - b.v)))
    ELSE IF a.k = "fin" THEN Ok(Zero)
    ELSE IF b.k = "fin" THEN Ok(IF b.v > 0 THEN a ELSE Neg(a))
    ELSE Ok(NaN)

\* r ** n in fixed point, n >= 1, every product rounded up
RECURSIVE PowFix(_, _)
PowFix(r, n) ==
    IF n <= 1 THEN r ELSE (PowFix(r, n - 1) * r + SCALE - 1) \div SCALE

\* the largest r in lo..hi with r ** n <= x
RECURSIVE RootSearch(_, _, _, _)
RootSearch(x, n, lo, hi) ==
    IF lo >= hi THEN lo
    ELSE LET mid == (lo + hi + 1) \div 2
         IN  IF PowFix(mid, n) <= x
             THEN RootSearch(x, n, mid, hi)
             ELSE RootSearch(x, n, lo, mid - 1)

Root(x, n) == RootSearch(x, n, 0, IF x > SCALE THEN x ELSE SCALE)

\* x ** (1 / years) for years # 0 and x a ratio of two values that are not
\* <= 0: x is NaN, +inf or a finite number >= 0
Pow(x, years) ==
    IF x.k = "nan" THEN Ok(NaN)
    ELSE IF x.k = "pinf" THEN Ok(IF years > 0 THEN PInf ELSE Zero)
    ELSE IF years > 0 THEN Ok(Fin(Root(x.v, years)))
    ELSE IF Root(x.v, 0 - years) = 0 THEN Raise("ZeroDivisionError")
    ELSE Ok(Fin((SCALE * SCALE) \div Root(x.v, 0 - years)))

\* max(a, b) and min(a, b): the first argument unless the second beats it
PyMax(a, b) == IF Less(a, b) THEN b ELSE a
PyMin(a, b) == IF Less(b, a) THEN b ELSE a

\* round(x, ndigits) on a percentage: to the nearest multiple of
\* SCALE / 10 ** ndigits, ties to even
Pow10(n) == IF n = 1 THEN 10 ELSE 100
Round(x, ndigits) ==
    IF x.k # "fin" THEN x
    ELSE LET unit == SCALE \div Pow10(ndigits)
             q == x.v \div unit
             r == x.v % unit
         IN  Fin(unit * (IF 2 * r > unit \/ (2 * r = unit /\ q % 2 = 1)
                         THEN q + 1 ELSE q))

----------------------------------------------------------------------------
\* SECTOR LIMITS

LowerLetters == <<"a", "b", "c", "d", "e", "f", "g", "h", "i", "j", "k", "l", "m",
                  "n", "o", "p", "q", "r", "s", "t", "u", "v", "w", "x", "y", "z">>
UpperLetters == <<"A", "B", "C", "D", "E", "F", "G", "H", "I", "J", "K", "L", "M",
                  "N", "O", "P", "Q", "R", "S", "T", "U", "V", "W", "X", "Y", "Z">>

\* str.upper(), a string being the sequence of its characters
UpperChar(c) ==
    IF \E i \in DOMAIN LowerLetters : LowerLetters[i] = c
    THEN UpperLetters[CHOOSE i \in DOMAIN LowerLetters : LowerLetters[i] = c]
    ELSE c
Upper(str) == [i \in DOMAIN str |-> UpperChar(str[i])]

ENERGY == <<"E", "N", "E", "R", "G", "Y">>
IT == <<"I", "T">>
BANKING == <<"B", "A", "N", "K", "I", "N", "G">>
FMCG == <<"F", "M", "C", "G">>
DEFAULT == <<"D", "E", "F", "A", "U", "L", "T">>

Limit(lo, hi) == [min |-> lo, max |-> hi]

SectorKeys == {ENERGY, IT, BANKING, FMCG, DEFAULT}
SECTOR_LIMITS ==
    [key \in SectorKeys |->
        CASE key = ENERGY -> Limit(4, 10)
          [] key = IT -> Limit(6, 15)
          [] key = BANKING -> Limit(7, 14)
          [] key = FMCG -> Limit(5, 12)
          [] key = DEFAULT -> Limit(5, 12)]

\* A faulty variant: the lookup without .upper()
LimitsFor_CaseSensitive(sec) ==
    IF sec \in DOMAIN SECTOR_LIMITS THEN SECTOR_LIMITS[sec] ELSE SECTOR_LIMITS[DEFAULT]

\* SECTOR_LIMITS.get(sector.upper(), SECTOR_LIMITS["DEFAULT"])
LimitsFor(sec) ==
    IF Upper(sec) \in DOMAIN SECTOR_LIMITS
    THEN SECTOR_LIMITS[Upper(sec)]
    ELSE SECTOR_LIMITS[DEFAULT]

\* A faulty variant: the floor without the ceiling
Clamp_FloorOnly(raw, limits) == PyMax(raw, PyInt(limits.min))

\* min(max(raw, limits["min"]), limits["max"])
Clamp(raw, limits) == PyMin(PyMax(raw, PyInt(limits.min)), PyInt(limits.max))

\* 0.6 * cagr + 0.4 * recent_avg
Blend(cagr, recent_avg) == Add(Scaled(6, 10, cagr), Scaled(4, 10, recent_avg))

----------------------------------------------------------------------------
\* CAGR

\* growth_api.calculate_cagr: a percentage
calculate_cagr_ga(start, end, years) ==
    LET s == safe_float(start)
        e == safe_float(end)
    IN  IF s.exc # "" THEN s
        ELSE IF e.exc # "" THEN e
        ELSE IF Le0(s.val) \/ Le0(e.val) \/ years <= 0 THEN Ok(Zero)
        ELSE LET ratio == Div(e.val, s.val)
                 root == Pow(ratio.val, years)
             IN  IF ratio.exc # "" THEN ratio
                 ELSE IF root.exc # "" THEN root
                 ELSE Ok(Scaled(100, 1, Sub(root.val, Fin(SCALE))))

\* financial_model_api.calculate_cagr: a fraction, and no test of years
calculate_cagr_fm(start_value, end_value, years) ==
    IF start_value.rep = "none" THEN Raise("TypeError")
    ELSE IF Le0(start_value) THEN Ok(Zero)
    ELSE IF end_value.rep = "none" THEN Raise("TypeError")
    ELSE IF Le0(end_value) THEN Ok(Zero)
    ELSE LET ratio == Div(end_value, start_value)
             root == Pow(ratio.val, years)
         IN  IF ratio.exc # "" THEN ratio
             ELSE IF years = 0 THEN Raise("ZeroDivisionError")
             ELSE IF root.exc # "" THEN root
             ELSE Ok(Sub(root.val, Fin(SCALE)))

----------------------------------------------------------------------------
\* GROWTH ENGINE

\* values[i] for a Python index i < 0 that is in range
At(values, i) == values[Len(values) + i + 1]

\* sum(xs): 0 + xs[0] + xs[1] + ...
RECURSIVE SumFrom(_, _)
SumFrom(acc, xs) == IF xs = <<>> THEN acc ELSE SumFrom(Add(acc, Head(xs)), Tail(xs))
Sum(xs) == SumFrom(Zero, xs)

\* ((b / a) - 1) * 100
Growth(a, b) ==
    LET q == Div(b, a)
    IN  IF q.exc # "" THEN q ELSE Ok(Scaled(100, 1, Sub(q.val, Fin(SCALE))))

\* [safe_float(v) for v in values if v > 0]: the test is on the raw value
RECURSIVE Sanitized(_)
Sanitized(values) ==
    IF values = <<>> THEN [exc |-> "", val |-> <<>>]
    ELSE LET v == Head(values)
             rest == Sanitized(Tail(values))
         IN  IF v.rep = "none" THEN [exc |-> "TypeError", val |-> <<>>]
             ELSE IF ~Gt0(v) THEN rest
             ELSE IF safe_float(v).exc # ""
                  THEN [exc |-> safe_float(v).exc, val |-> <<>>]
             ELSE IF rest.exc # "" THEN rest
             ELSE [exc |-> "", val |-> <<safe_float(v).val>> \o rest.val]

\* A faulty variant: the loop over range(-2, -1), the last pair alone
Recent_ga_LastPair(values) ==
    IF Gt0(At(values, -2))
    THEN <<Growth(At(values, -2), At(values, -1)).val>>
    ELSE <<>>

\* the loop over range(-3, -1) of growth_api: pairs with a divisor > 0 only
Recent_ga(values) ==
    LET one(i) == IF Gt0(At(values, i))
                  THEN <<Growth(At(values, i), At(values, i + 1)).val>>
                  ELSE <<>>
    IN  one(-3) \o one(-2)

\* A faulty variant: 0.0 unless both pairs were collected
RecentAvg_ga_NeedsTwo(recent) ==
    IF Len(recent) >= 2 THEN Div(Sum(recent), PyInt(Len(recent))).val ELSE Zero

\* sum(recent) / len(recent) if recent else 0.0
RecentAvg_ga(recent) ==
    IF recent # <<>> THEN Div(Sum(recent), PyInt(Len(recent))).val ELSE Zero

Raised(e) == [status |-> "raise", exc |-> e]

Returned(values, short, cagr, recent_avg, raw, limits, final, ndigits) ==
    [status |-> "ok", values |-> values, short |-> short, cagr |-> cagr,
     recent_avg |-> recent_avg, raw |-> raw, limits |-> limits, final |-> final,
     out |-> <<Round(final, ndigits), Round(cagr, ndigits),
               Round(recent_avg, ndigits)>>]

\* what return 0.0, 0.0, 0.0 leaves
ShortCircuit(values) ==
    [status |-> "ok", values |-> values, short |-> TRUE,
     out |-> <<Zero, Zero, Zero>>]

\* growth_api.suggest_growth
suggest_growth_ga(raw_values, sec) ==
    LET clean == Sanitized(raw_values)
        values == clean.val
        years == Len(values) - 1
        cagr == calculate_cagr_ga(values[1], At(values, -1), years)
        recent == Recent_ga(values)
        recent_avg == RecentAvg_ga(recent)
        raw == Blend(cagr.val, recent_avg)
        limits == LimitsFor(sec)
        final == Clamp(raw, limits)
    IN  IF clean.exc # "" THEN Raised(clean.exc)
        ELSE IF Len(values) < 4 THEN ShortCircuit(values)
        ELSE IF cagr.exc # "" THEN Raised(cagr.exc)
        ELSE Returned(values, FALSE, cagr.val, recent_avg, raw, limits, final, 2)

\* financial_model_api.suggest_growth: no sanitizing, no length test, no
\* test of the divisors
suggest_growth_fm(historical_values, sec) ==
    LET n == Len(historical_values)
        years == n - 1
        frac == calculate_cagr_fm(historical_values[1], At(historical_values, -1),
                                  years)
        cagr == Scaled(100, 1, frac.val)
        g1 == Growth(At(historical_values, -3), At(historical_values, -2))
        g2 == Growth(At(historical_values, -2), At(historical_values, -1))
        recent_avg == Div(Sum(<<g1.val, g2.val>>), PyInt(2)).val
        raw_suggestion == Blend(cagr, recent_avg)
        limits == LimitsFor(sec)
        final_growth == Clamp(raw_suggestion, limits)
    IN  IF n = 0 THEN Raised("IndexError")
        ELSE IF frac.exc # "" THEN Raised(frac.exc)
        ELSE IF n < 3 THEN Raised("IndexError")
        ELSE IF g1.exc # "" THEN Raised(g1.exc)
        ELSE IF g2.exc # "" THEN Raised(g2.exc)
        ELSE Returned(historical_values, FALSE, cagr, recent_avg, raw_suggestion,
                      limits, final_growth, 1)

----------------------------------------------------------------------------
\* The requests served

F(n) == PyFloat(n * SCALE)

\* what an entry of a historical series may be
Values == {None, NaN, PInf, NInf, F(-1), F(0), F(2), F(3)}

\* what safe_float may be handed: floats in halves, ints, the special values
\* of a float and of a numeric type that is not a float
Args ==
    {None, NaN, PInf, NInf, HugeInt}
    \cup {PyFloat((n * SCALE) \div 2) : n \in -MaxArg..MaxArg}
    \cup {PyInt(n) : n \in -MaxArg..MaxArg}
    \cup {PyVal("other", k, 0) : k \in {"nan", "pinf", "ninf"}}
    \cup {PyVal("other", "fin", n * SCALE) : n \in -MaxArg..MaxArg}

\* sector tags, as sequences of characters
Tags ==
    {<<"i", "t">>, IT, <<"E", "n", "e", "r", "g", "y">>,
     <<"b", "a", "n", "k", "i", "n", "g">>, <<"f", "m", "c", "G">>,
     <<"d", "e", "f", "a", "u", "l", "t">>, <<>>, <<"i", "t", " ">>}

NoCall == [status |-> "none"]

Idle ==
    /\ series = <<>>
    /\ resG = NoCall /\ resF = NoCall
    /\ sfCall = NoCall /\ cagrCall = NoCall

Init ==
    /\ series = <<>>
    /\ sector = <<>>
    /\ resG = NoCall
    /\ resF = NoCall
    /\ sfCall = NoCall
    /\ cagrCall = NoCall

\* the caller adds one observation to the series of the request
Push(v) ==
    /\ resG = NoCall /\ sfCall = NoCall /\ cagrCall = NoCall
    /\ Len(series) < MaxLen
    /\ series' = Append(series, v)
    /\ UNCHANGED <<sector, resG, resF, sfCall, cagrCall>>

\* growth_api.suggest_growth(series, sec)
CallGrowthApi(sec) ==
    /\ resG = NoCall /\ sfCall = NoCall /\ cagrCall = NoCall
    /\ sector' = sec
    /\ resG' = suggest_growth_ga(series, sec)
    /\ UNCHANGED <<series, resF, sfCall, cagrCall>>

\* financial_model_api.suggest_growth on the same series and sector
CallFinancialModel ==
    /\ resG # NoCall /\ resF = NoCall
    /\ resF' = suggest_growth_fm(series, sector)
    /\ UNCHANGED <<series, sector, resG, sfCall, cagrCall>>

\* safe_float(x)
CallSafeFloat(x) ==
    /\ Idle
    /\ sfCall' = [status |-> "done", arg |-> x, res |-> safe_float(x)]
    /\ UNCHANGED <<series, sector, resG, resF, cagrCall>>

\* calculate_cagr(start, end, years) of both modules
CallCagr(start, end, years) ==
    /\ Idle
    /\ cagrCall' = [status |-> "done", start |-> start, end |-> end,
                    years |-> years,
                    ga |-> calculate_cagr_ga(start, end, years),
                    fm |-> calculate_cagr_fm(start, end, years)]
    /\ UNCHANGED <<series, sector, resG, resF, sfCall>>

Next ==
    \/ \E v \in Values : Push(v)
    \/ \E sec \in Tags : CallGrowthApi(sec)
    \/ CallFinancialModel
    \/ \E x \in Args : CallSafeFloat(x)
    \/ \E start \in Values, end \in Values, years \in -1..MaxLen :
          CallCagr(start, end, years)

Spec == Init /\ [][Next]_vars

----------------------------------------------------------------------------
\* Properties

Called(res) == res.status # "none"
Blended(res) == res.status = "ok" /\ ~res.short

\* a value that the policy of the engine counts as valid: finite and > 0
Valid(x) == x.rep # "none" /\ x.k = "fin" /\ x.v > 0
ValidCount(values) == Cardinality({i \in DOMAIN values : Valid(values[i])})
AllValid(values) == \A i \in DOMAIN values : Valid(values[i])

\* C1: suggest never raises: each suggest_growth returns a result for every
\* series and sector tag.
C1_NeverRaises == resG.status # "raise" /\ resF.status # "raise"

\* C2: with fewer than 4 valid (finite, strictly positive) values in the
\* series, a returning suggest returns 0.0, 0.0, 0.0 whatever the sector.
C2_ShortSeriesZero ==
    \A res \in {resG, resF} :
        (res.status = "ok" /\ ValidCount(series) < 4)
            => res.out = <<Zero, Zero, Zero>>

\* C3: with at least 4 valid values the suggestion returned is
\* min(max(r, min), max) for r = 0.6 * cagr + 0.4 * recent_trend and the
\* bound of the sector tag, rounded to the precision of the call site.
SpecClamp(r, lim) ==
    IF Less(r, PyInt(lim.min)) THEN PyInt(lim.min)
    ELSE IF Less(PyInt(lim.max), r) THEN PyInt(lim.max)
    ELSE r
SpecRaw(res) == Add(Scaled(6, 10, res.cagr), Scaled(4, 10, res.recent_avg))
C3_Holds(res, ndigits) ==
    (res.status = "ok" /\ ValidCount(series) >= 4)
        => /\ ~res.short
           /\ res.out[1] = Round(SpecClamp(SpecRaw(res), LimitsFor(sector)), ndigits)
C3_Clamped == C3_Holds(resG, 2) /\ C3_Holds(resF, 1)

\* a call whose blended value lies above the ceiling of the sector and comes
\* back as the ceiling
C3_Witness ==
    /\ Blended(resG) /\ ValidCount(series) >= 4
    /\ Less(PyInt(resG.limits.max), resG.raw)
    /\ resG.out[1] = PyFloat(resG.limits.max * SCALE)

\* C4: every value of the series that growth_api's length test, CAGR and
\* recent-trend window work on is finite and strictly positive.
C4_CleanValues == resG.status = "ok" => AllValid(resG.values)

\* C5: on a valid series of at least 4 values the recent trend is the mean
\* of the growth rates of the last three consecutive pairs.
MeanOfLast(values, pairs) ==
    Div(Sum([j \in 1..pairs |->
                Growth(At(values, j - pairs - 2),
                       At(values, j - pairs - 1)).val]),
        PyInt(pairs)).val
C5_ThreePairs ==
    \A res \in {resG, resF} :
        (Blended(res) /\ Len(res.values) >= 4 /\ AllValid(res.values))
            => res.recent_avg = MeanOfLast(res.values, 3)

\* C6: calculate_cagr returns 0.0 whenever start <= 0 or end <= 0 or
\* years <= 0, in both modules.
C6_CagrZero ==
    (/\ cagrCall.status = "done"
     /\ IsFinite(cagrCall.start) /\ IsFinite(cagrCall.end)
     /\ (cagrCall.start.v <= 0 \/ cagrCall.end.v <= 0 \/ cagrCall.years <= 0))
        => cagrCall.ga = Ok(Zero) /\ cagrCall.fm = Ok(Zero)

\* C7: the bound a blending call uses is the table entry of the tag taken
\* case-insensitively, and the DEFAULT entry for every other tag.
ExpectedLimits(tag) ==
    CASE tag \in {<<"i", "t">>, <<"I", "T">>} -> Limit(6, 15)
      [] tag = <<"E", "n", "e", "r", "g", "y">> -> Limit(4, 10)
      [] tag = <<"b", "a", "n", "k", "i", "n", "g">> -> Limit(7, 14)
      [] tag = <<"f", "m", "c", "G">> -> Limit(5, 12)
      [] OTHER -> Limit(5, 12)
C7_Lookup ==
    \A res \in {resG, resF} : Blended(res) => res.limits = ExpectedLimits(sector)

\* a blending call with the lower-case tag "it" that used the bound of IT
C7_Witness ==
    /\ Blended(resG) /\ Blended(resF)
    /\ sector = <<"i", "t">>
    /\ resG.limits = Limit(6, 15)

\* C8: safe_float never raises and returns a finite float: 0.0 for None,
\* NaN and the infinities in any numeric representation, the value itself
\* as a float otherwise.
Degenerate(x) == x.rep = "none" \/ x.k \in {"nan", "pinf", "ninf"}
C8_SanitizeTotal ==
    sfCall.status = "done"
        => /\ sfCall.res.exc = ""
           /\ sfCall.res.val.rep = "float" /\ IsFinite(sfCall.res.val)
           /\ sfCall.res.val = IF Degenerate(sfCall.arg) THEN Zero
                               ELSE ToFloat(sfCall.arg)

\* the pairs of the window of growth_api whose divisor is strictly positive
ValidPairs(values) == {i \in {-3, -2} : Valid(At(values, i))}

WellFormed(values) == Len(values) >= 4 /\ AllValid(values)
Unrounded(res) == <<res.final, res.cagr, res.recent_avg>>
Rounded(res, ndigits) ==
    <<Round(res.final, ndigits), Round(res.cagr, ndigits),
      Round(res.recent_avg, ndigits)>>
C10_Equivalent ==
    (Called(resG) /\ Called(resF) /\ WellFormed(series))
        => /\ Blended(resG) /\ Blended(resF)
           /\ Unrounded(resG) = Unrounded(resF)
           /\ resG.out = Rounded(resG, 2)
           /\ resF.out = Rounded(resG, 1)

\* both modules have served a well-formed series that grew
C10_Witness ==
    /\ Called(resG) /\ Called(resF) /\ WellFormed(series)
    /\ Blended(resF) /\ resF.cagr.v > 0 /\ resF.recent_avg.v > 0

====
